---- MODULE Spec2Model ----
(***************************************************************************)
(* A model of juv's `add` and `init` operations (src/juv/_add.py and       *)
(* src/juv/_init.py): the notebook files on disk, the scoped temporary     *)
(* script file, the calls made to the external package manager and the     *)
(* position of each running operation.                                     *)
(*                                                                         *)
(* Texts (cell sources, file contents, package specifiers, tool output)    *)
(* are sequences of one-character strings.  The character "M" stands for   *)
(* an inline metadata block, " " and "\n" are whitespace.                  *)
(***************************************************************************)
EXTENDS Integers, Sequences, FiniteSets, TLC

VARIABLES
    disk,      \* the files: a function from the existing paths to their content
    tmp,       \* the temporary script files: from the existing ones to their text
    proc,      \* per process: the running operation (arguments, locals, position)
    ncalls,    \* the number of operations started so far
    fn         \* a call of uv_pip_compile followed on its own (see SpecCompile)

vars == <<disk, tmp, proc, ncalls, fn>>

(***************************************************************************)
(* Bounds of the model.                                                    *)
(***************************************************************************)
MaxCalls == 2

(***************************************************************************)
(* Text helpers.                                                           *)
(***************************************************************************)
Whitespace == {" ", "\n", "\r"}

RECURSIVE LStrip(_)
LStrip(s) ==
    IF s # <<>> /\ Head(s) \in Whitespace THEN LStrip(Tail(s)) ELSE s

RECURSIVE RStrip(_)
RStrip(s) ==
    IF s # <<>> /\ s[Len(s)] \in Whitespace
    THEN RStrip(SubSeq(s, 1, Len(s) - 1))
    ELSE s

\* str.strip(): leading and trailing whitespace removed.
Strip(s) == RStrip(LStrip(s))

\* Reading a file opened in text mode with the default newline=None: "\r\n" and
\* a lone "\r" are given as "\n".
RECURSIVE UniversalNewlines(_)
UniversalNewlines(s) ==
    IF s = <<>> THEN <<>>
    ELSE IF Head(s) = "\r"
         THEN <<"\n">> \o UniversalNewlines(
                  IF Len(s) >= 2 /\ s[2] = "\n" THEN Tail(Tail(s)) ELSE Tail(s))
         ELSE <<Head(s)>> \o UniversalNewlines(Tail(s))

\* f.write(cell["source"].strip()): the text put in the temporary file.
ExtractText(source) == Strip(source)
\* f.read().strip(): the text taken back from the temporary file.
ReinsertRaw(content) == content
ReinsertText(content) == Strip(UniversalNewlines(content))

\* `sub in s` of Python strings: sub occurs in s as a contiguous run.
Contains(s, sub) ==
    \E i \in 1..(Len(s) - Len(sub) + 1) : SubSeq(s, i, i + Len(sub) - 1) = sub

\* The inline-metadata predicate of juv._pep723: the text holds a metadata block.
includes_inline_metadata(text) == Contains(text, <<"M">>)

\* "".join(cell["source"]): the source of a cell read by jupytext is one string.
JoinSource(source) == source

(***************************************************************************)
(* Paths: directory, stem (a name and, for UntitledN, its number) and      *)
(* extension.                                                              *)
(***************************************************************************)
MkPath(d, n, k, e) == [dir |-> d, name |-> n, num |-> k, ext |-> e]

\* pathlib's with_suffix: the same directory and stem, another extension.
WithSuffixKeep(path, e) == path
with_suffix(path, e) == [path EXCEPT !.ext = e]

NoPath == MkPath("", "", 0, "")

(***************************************************************************)
(* Documents: the ordered cells of a notebook.                             *)
(***************************************************************************)
\* A cell: origin is a history field (who made the cell), read by no operation.
Cell(t, src, meta, hid, org) ==
    [cell_type |-> t, source |-> src, metadata |-> meta, hidden |-> hid, origin |-> org]

\* juv._nbutils.code_cell(source, hidden)
code_cell(src, hid, org) == Cell("code", src, "new", hid, org)

\* The condition handed to find by add_notebook.
IsManifest(cell) ==
    /\ cell.cell_type = "code"
    /\ includes_inline_metadata(JoinSource(cell.source))

\* find(cb, items): the index of the first item satisfying cb, 0 for None.
FindLast(items) ==
    IF \E i \in 1..Len(items) : IsManifest(items[i])
    THEN CHOOSE i \in 1..Len(items) :
            /\ IsManifest(items[i])
            /\ \A j \in (i + 1)..Len(items) : ~IsManifest(items[j])
    ELSE 0
find(items) ==
    IF \E i \in 1..Len(items) : IsManifest(items[i])
    THEN CHOOSE i \in 1..Len(items) :
            /\ IsManifest(items[i])
            /\ \A j \in 1..(i - 1) : ~IsManifest(items[j])
    ELSE 0

\* add_notebook's locate-or-create: the cells after it and the index of the cell
\* whose source the rest of the operation rewrites.
LocateAlwaysInsert(cells) ==
    [cells |-> <<code_cell(<<>>, TRUE, "synth")>> \o cells, idx |-> 1]
LocateOrAppend(cells) ==
    IF find(cells) = 0
    THEN [cells |-> cells \o <<code_cell(<<>>, TRUE, "synth")>>, idx |-> Len(cells) + 1]
    ELSE [cells |-> cells, idx |-> find(cells)]
LocateOrCreate(cells) ==
    IF find(cells) = 0
    THEN [cells |-> <<code_cell(<<>>, TRUE, "synth")>> \o cells, idx |-> 1]
    ELSE [cells |-> cells, idx |-> find(cells)]

(***************************************************************************)
(* Files.                                                                  *)
(***************************************************************************)
NotebookFile(cells) == [kind |-> "nb", cells |-> cells, text |-> <<>>]
TextFile(text) == [kind |-> "text", cells |-> <<>>, text |-> text]

Exists(d, path) == path \in DOMAIN d

\* The files after `content` is written to `path`.
WriteFile(d, path, content) ==
    [q \in DOMAIN d \cup {path} |-> IF q = path THEN content ELSE d[q]]

RemoveFile(d, path) == [q \in DOMAIN d \ {path} |-> d[q]]

\* juv._nbutils.write_ipynb(notebook, path): the whole document goes to path.
write_ipynb(d, cells, path) == WriteFile(d, path, NotebookFile(cells))

\* The scoped file leaves its `with` block: it is closed and deleted, whether the
\* block ends normally (ok) or by an exception.
ExitScopeLeakOnError(t, f, ok) == IF ok THEN RemoveFile(t, f) ELSE t
ExitScope(t, f, ok) == RemoveFile(t, f)

(***************************************************************************)
(* Arguments.                                                              *)
(***************************************************************************)
ReqNone == [given |-> FALSE, file |-> NoPath]
ReqPath == MkPath("cwd", "requirements", 0, "txt")
ReqFile == [given |-> TRUE, file |-> ReqPath]

NoOpts ==
    [extras |-> <<>>, editable |-> FALSE, branch |-> "", rev |-> "", tag |-> "",
     exclude_newer |-> ""]
SomeOpts ==
    [extras |-> <<"dev">>, editable |-> TRUE, branch |-> "main", rev |-> "",
     tag |-> "", exclude_newer |-> "2024-01-01"]
\* The optional parameters of add: none supplied, or a requirements file, an
\* extra, editable, a branch and exclude_newer supplied.
OptionChoices ==
    {[requirements |-> ReqNone, opts |-> NoOpts],
     [requirements |-> ReqFile, opts |-> SomeOpts]}

PkgP == <<"p">>
PkgQ == <<"q">>
PackageChoices == {<<PkgP>>, <<PkgQ, PkgP>>}
\* A package whose name holds the name of another.
PkgPQ == <<"p", "q">>
CompilePackageChoices == PackageChoices \cup {<<PkgPQ, PkgP>>, <<PkgP, PkgPQ>>}

P_nb == MkPath("cwd", "nb", 0, "ipynb")
P_txt == MkPath("cwd", "nb", 0, "txt")
P_sub == MkPath("sub", "nb", 0, "ipynb")
Untitled(i) == MkPath("cwd", "Untitled", i, "ipynb")

P_bare == MkPath("cwd", "nb", 0, "")

AddPaths == {P_nb, P_txt, P_sub}
InitPaths == {NoPath, P_sub, P_txt, P_bare}
\* The optional parameters of init: none supplied, or a Python version and a
\* package supplied.
InitOptionChoices ==
    {[python |-> "", packages |-> <<>>], [python |-> "3.12", packages |-> <<PkgP>>]}

(***************************************************************************)
(* What the external tool may answer.                                      *)
(***************************************************************************)
\* The script after `uv add --script` or `uv init --script` has run on it.
ToolTexts == {<<"\n", "M", "p", " ">>, <<"x">>}
\* Standard output of `uv pip compile`.
CompileOuts ==
    {<<"#", "\n", "p", "=", "=", "1", "\n", "q", "=", "=", "2", "\n">>,
     <<"#", "=", "\n">>}
CompileErrs == {<<"e", "r", "r", "\n">>}

(***************************************************************************)
(* uv_pip_compile.                                                         *)
(***************************************************************************)
\* The loop appending the packages to the requirements text.
RECURSIVE AppendPackages(_, _)
AppendPackages(txt, packages) ==
    IF packages = <<>> THEN txt
    ELSE AppendPackages(
            IF ~Contains(txt, Head(packages)) THEN txt \o Head(packages) \o <<"\n">> ELSE txt,
            Tail(packages))

\* The text piped to `uv pip compile`.
CompileInput(d, packages, requirements) ==
    AppendPackages(IF requirements.given THEN d[requirements.file].text ELSE <<>>, packages)

\* str.split("\n")
RECURSIVE SplitLines(_)
SplitLines(s) ==
    IF \E i \in 1..Len(s) : s[i] = "\n"
    THEN LET i == CHOOSE k \in 1..Len(s) : s[k] = "\n" /\ \A j \in 1..(k - 1) : s[j] # "\n"
         IN  <<SubSeq(s, 1, i - 1)>> \o SplitLines(SubSeq(s, i + 1, Len(s)))
    ELSE <<s>>

\* `"==" in pkg`
HasSingleEquals(line) == Contains(line, <<"=">>)
HasPin(line) == Contains(line, <<"=", "=">>)

\* The value uv_pip_compile returns for the tool's standard output.
ExactVersions(stdout) == SelectSeq(SplitLines(stdout), HasPin)

(***************************************************************************)
(* uv_script: the argument vector handed to uv.  An argument is a word      *)
(* ("add", "--editable"), a flag with its value ("--tag=v1"), a path or a   *)
(* package; opt names the option it belongs to.                            *)
(***************************************************************************)
Arg(kind, opt, val, path, pkg) ==
    [kind |-> kind, opt |-> opt, val |-> val, path |-> path, pkg |-> pkg]
Word(w) == Arg("word", w, "", NoPath, <<>>)
FlagEq(flag, val) == Arg("eq", flag, val, NoPath, <<>>)
PathArg(opt, path) == Arg("path", opt, "", path, <<>>)
PkgArg(pkg) == Arg("pkg", "package", "", NoPath, pkg)

\* *([...] if cond else [])
Opt(cond, args) == IF cond THEN args ELSE <<>>

ScriptArgsEmptyFlags(script, packages, requirements, opts) ==
    <<Word("add")>>
    \o Opt(requirements.given,
           <<Word("--requirements"), PathArg("--requirements", requirements.file)>>)
    \o [i \in 1..Len(opts.extras) |-> FlagEq("--extra", opts.extras[i])]
    \o Opt(opts.editable, <<Word("--editable")>>)
    \o <<FlagEq("--tag", opts.tag)>>
    \o Opt(opts.branch # "", <<FlagEq("--branch", opts.branch)>>)
    \o Opt(opts.rev # "", <<FlagEq("--rev", opts.rev)>>)
    \o Opt(opts.exclude_newer # "", <<FlagEq("--exclude-newer", opts.exclude_newer)>>)
    \o <<Word("--script"), PathArg("--script", script)>>
    \o [i \in 1..Len(packages) |-> PkgArg(packages[i])]
\* The list uv_script builds; a parameter that is None or empty gives nothing.
ScriptArgs(script, packages, requirements, opts) ==
    <<Word("add")>>
    \o Opt(requirements.given,
           <<Word("--requirements"), PathArg("--requirements", requirements.file)>>)
    \o [i \in 1..Len(opts.extras) |-> FlagEq("--extra", opts.extras[i])]
    \o Opt(opts.editable, <<Word("--editable")>>)
    \o Opt(opts.tag # "", <<FlagEq("--tag", opts.tag)>>)
    \o Opt(opts.branch # "", <<FlagEq("--branch", opts.branch)>>)
    \o Opt(opts.rev # "", <<FlagEq("--rev", opts.rev)>>)
    \o Opt(opts.exclude_newer # "", <<FlagEq("--exclude-newer", opts.exclude_newer)>>)
    \o <<Word("--script"), PathArg("--script", script)>>
    \o [i \in 1..Len(packages) |-> PkgArg(packages[i])]

(***************************************************************************)
(* The running operation of a process.                                     *)
(***************************************************************************)
Idle(d) ==
    [pc |-> "idle", entry |-> "none", callno |-> 0, inadd |-> FALSE, path |-> NoPath,
     packages |-> <<>>, requirements |-> ReqNone, pin |-> FALSE, opts |-> NoOpts,
     given |-> [packages |-> <<>>, requirements |-> ReqNone],
     python |-> "", nopath |-> FALSE, cells |-> <<>>, idx |-> 0, f |-> NoPath,
     error |-> <<>>, ret |-> NoPath,
     \* history: the calls made, the cells as read, the files when the operation
     \* and when its add call started, and where the add call's part of log starts
     log |-> <<>>, orig |-> <<>>, pre |-> d, addpre |-> d, addfrom |-> 0]

\* One call made to a collaborator (the external tool, notebook I/O, tempfile).
\* text is what the call is given (standard input, the text written), out what
\* it gives back, ok whether it succeeded (exit code 0, no exception).
Ev(name, path, pkgs, reqs, opts, text) ==
    [ev |-> name, path |-> path, pkgs |-> pkgs, reqs |-> reqs, opts |-> opts,
     text |-> text, argv |-> <<>>, out |-> <<>>, ok |-> TRUE]
WithArgv(e, argv) == [e EXCEPT !.argv = argv]
Ev0(name, path) == Ev(name, path, <<>>, ReqNone, NoOpts, <<>>)
Gave(e, out) == [e EXCEPT !.out = out]
Failing(e) == [e EXCEPT !.ok = FALSE]

\* No call of uv_pip_compile is followed on its own.
NoCall == [pc |-> "none"]

\* uv(args, check=True): a non-zero exit raises.
RaisesNever(ok) == FALSE
Raises(ok) == ~ok

\* uv_pip_compile: `if result.returncode != 0: raise RuntimeError(...)`.
CompileRaisesNever(ok) == FALSE
CompileRaises(ok) == ~ok
\* RuntimeError(result.stderr.decode()): the message of the error raised.
CompileErrorStripped(stderr) == Strip(stderr)
CompileError(stderr) == stderr

\* add, after the pin step: the exact versions replace the packages and the
\* requirements file is dropped.
AfterPinKeepRequirements(pinned, requirements) ==
    [packages |-> pinned, requirements |-> requirements]
AfterPin(pinned, requirements) ==
    [packages |-> pinned, requirements |-> ReqNone]

Procs == DOMAIN proc

\* tempfile.NamedTemporaryFile(suffix=".py", dir=dir) makes a file under a name
\* no other file has: the files of the n-th operation are numbered 2n - 1 (the
\* one init makes) and 2n (the one add_notebook makes).
TmpNameFixed(dir, n) == MkPath(dir, "tmp", 0, "py")
TmpName(dir, n) == MkPath(dir, "tmp", n, "py")

\* range(1, 100): with Untitled.ipynb, 100 names are tried.
NumUntitled == 100

\* get_first_non_conflicting_untitled_ipynb: the number of the first free name
\* (0 for Untitled.ipynb), or -1 when it raises ValueError.
FirstUntitledShort(d) ==
    IF ~Exists(d, Untitled(0)) THEN 0
    ELSE IF \E i \in 1..(NumUntitled - 2) : ~Exists(d, Untitled(i))
         THEN CHOOSE i \in 1..(NumUntitled - 2) :
                 /\ ~Exists(d, Untitled(i))
                 /\ \A j \in 1..(i - 1) : Exists(d, Untitled(j))
         ELSE -1
FirstUntitled(d) ==
    IF ~Exists(d, Untitled(0)) THEN 0
    ELSE IF \E i \in 1..(NumUntitled - 1) : ~Exists(d, Untitled(i))
         THEN CHOOSE i \in 1..(NumUntitled - 1) :
                 /\ ~Exists(d, Untitled(i))
                 /\ \A j \in 1..(i - 1) : Exists(d, Untitled(j))
         ELSE -1

DocPlain ==
    <<Cell("markdown", <<"M">>, "m1", FALSE, "user"),
      Cell("code", <<"x">>, "m2", FALSE, "user")>>
DocManifest ==
    <<Cell("markdown", <<"M">>, "m1", FALSE, "user"),
      Cell("code", <<" ", "M", "\n">>, "m2", FALSE, "user"),
      Cell("code", <<"M", "x">>, "m3", TRUE, "user")>>
InitDocs == {<<>>, DocPlain, DocManifest}

\* The numbers of the UntitledN.ipynb files the current directory starts with.
InitUntitled ==
    {{}, {1}, {0, 2}, 0..(NumUntitled - 2), 0..(NumUntitled - 1)}

Init ==
    /\ \E cells \in InitDocs, u \in InitUntitled :
         /\ cells = DocManifest \/ u = {}
         /\ disk = [q \in {P_nb, P_txt, ReqPath} \cup {Untitled(i) : i \in u} |->
                      CASE q = P_nb -> NotebookFile(cells)
                        [] q = P_txt -> NotebookFile(cells)
                        [] q = ReqPath -> TextFile(<<"q", "q", "\n">>)
                        [] OTHER -> NotebookFile(<<>>)]
    /\ tmp = [q \in {} |-> TextFile(<<>>)]
    /\ proc = [p \in {1} |-> Idle(disk)]
    /\ ncalls = 0
    /\ fn = NoCall

Set(p, rec) == proc' = [proc EXCEPT ![p] = rec]
Log(p, evs) == proc[p].log \o evs

\* The branch of add on the path's extension.
NextOfAddAlwaysNotebook(path) == "read"
NextOfAdd(path) == IF path.ext = "ipynb" THEN "read" ELSE "script"

(***************************************************************************)
(* add                                                                     *)
(***************************************************************************)
\* add(path, packages, requirements, ..., pin, ...) is called.
AddCall(p) ==
    /\ proc[p].pc = "idle"
    /\ ncalls < MaxCalls
    /\ \E path \in AddPaths, packages \in PackageChoices, pin \in BOOLEAN,
          o \in OptionChoices :
         Set(p, [Idle(disk) EXCEPT
                    !.pc = IF pin THEN "pin" ELSE NextOfAdd(path),
                    !.entry = "add", !.callno = ncalls + 1, !.inadd = TRUE,
                    !.path = path,
                    !.packages = packages, !.requirements = o.requirements,
                    !.given = [packages |-> packages, requirements |-> o.requirements],
                    !.pin = pin, !.opts = o.opts])
    /\ ncalls' = ncalls + 1
    /\ UNCHANGED <<fn, disk, tmp>>

\* add_notebook(path, ...) is called by a user of the module.
AddNotebookCall(p) ==
    /\ proc[p].pc = "idle"
    /\ ncalls < MaxCalls
    /\ \E path \in {P_nb, P_txt}, packages \in PackageChoices :
         Set(p, [Idle(disk) EXCEPT
                    !.pc = "read", !.entry = "add_notebook", !.callno = ncalls + 1,
                    !.inadd = TRUE,
                    !.path = path, !.packages = packages,
                    !.given = [packages |-> packages, requirements |-> ReqNone]])
    /\ ncalls' = ncalls + 1
    /\ UNCHANGED <<fn, disk, tmp>>

\* if pin: uv_pip_compile runs; the tool exits 0 with some standard output or
\* exits non-zero with some standard error.
Pin(p) ==
    /\ proc[p].pc = "pin"
    /\ LET r == proc[p]
           call == Ev("compile", NoPath, r.packages, r.requirements,
                      [NoOpts EXCEPT !.exclude_newer = r.opts.exclude_newer],
                      CompileInput(disk, r.packages, r.requirements))
       IN  \E ok \in BOOLEAN, out \in CompileOuts, err \in CompileErrs :
             LET stdout == IF ok THEN out ELSE <<>>
                 e == IF ok THEN Gave(call, stdout) ELSE Failing(Gave(call, err))
             IN  IF CompileRaises(ok)
                 THEN Set(p, [r EXCEPT !.pc = "failed", !.error = CompileError(err),
                                       !.log = Log(p, <<e>>)])
                 ELSE LET a == AfterPin(ExactVersions(stdout), r.requirements)
                      IN  Set(p, [r EXCEPT !.pc = NextOfAdd(r.path),
                                           !.packages = a.packages,
                                           !.requirements = a.requirements,
                                           !.log = Log(p, <<e>>)])
    /\ UNCHANGED <<fn, disk, tmp, ncalls>>

\* add_notebook: jupytext.read, then the manifest cell is located or created.
ReadNotebook(p) ==
    /\ proc[p].pc = "read"
    /\ LET r == proc[p]
           call == Ev0("read", r.path)
       IN  IF Exists(disk, r.path) /\ disk[r.path].kind = "nb"
           THEN LET loc == LocateOrCreate(disk[r.path].cells)
                IN  Set(p, [r EXCEPT !.pc = "extract", !.cells = loc.cells,
                                     !.idx = loc.idx, !.orig = disk[r.path].cells,
                                     !.log = Log(p, <<call>>)])
           ELSE Set(p, [r EXCEPT !.pc = "failed", !.error = <<"i", "o">>,
                                 !.log = Log(p, <<Failing(call)>>)])
    /\ UNCHANGED <<fn, disk, tmp, ncalls>>

\* add_notebook: the temporary file is created beside the notebook and the
\* stripped source of the cell is written to it; or the file cannot be created.
Extract(p) ==
    /\ proc[p].pc = "extract"
    /\ LET r == proc[p]
           f == TmpName(r.path.dir, 2 * r.callno)
       IN  \/ /\ tmp' = WriteFile(tmp, f, TextFile(ExtractText(r.cells[r.idx].source)))
              /\ Set(p, [r EXCEPT !.pc = "invoke", !.f = f,
                                  !.log = Log(p, <<Ev0("mktemp", f)>>)])
           \/ /\ Set(p, [r EXCEPT !.pc = "failed", !.error = <<"i", "o">>,
                                  !.log = Log(p, <<Failing(Ev0("mktemp", f))>>)])
              /\ tmp' = tmp
    /\ UNCHANGED <<fn, disk, ncalls>>

\* add_notebook: uv_script runs on the temporary file; the tool rewrites the file
\* and exits 0, or exits non-zero and the exception leaves the with block.
Invoke(p) ==
    /\ proc[p].pc = "invoke"
    /\ LET r == proc[p]
           call == WithArgv(
                       Ev("add_to_script", r.f, r.packages, r.requirements, r.opts, <<>>),
                       ScriptArgs(r.f, r.packages, r.requirements, r.opts))
       IN  \E ok \in BOOLEAN, out \in ToolTexts :
             LET after == IF ok THEN WriteFile(tmp, r.f, TextFile(out)) ELSE tmp
                 e == IF ok THEN Gave(call, out) ELSE Failing(call)
             IN  IF Raises(ok)
                 THEN /\ tmp' = ExitScope(after, r.f, FALSE)
                      /\ Set(p, [r EXCEPT !.pc = "failed", !.error = <<"u", "v">>,
                                          !.log = Log(p, <<e, Ev0("rmtemp", r.f)>>)])
                 ELSE /\ tmp' = after
                      /\ Set(p, [r EXCEPT !.pc = "reinsert", !.log = Log(p, <<e>>)])
    /\ UNCHANGED <<fn, disk, ncalls>>

\* add_notebook: the file is read back and its stripped text becomes the source
\* of the cell; or reading raises and the exception leaves the with block.
Reinsert(p) ==
    /\ proc[p].pc = "reinsert"
    /\ LET r == proc[p]
           text == ReinsertText(tmp[r.f].text)
           call == Ev("setsource", r.f, <<>>, ReqNone, NoOpts, text)
       IN  \/ /\ Set(p, [r EXCEPT !.pc = "close", !.cells[r.idx].source = text,
                                  !.log = Log(p, <<call>>)])
              /\ tmp' = tmp
           \/ /\ Set(p, [r EXCEPT !.pc = "failed", !.error = <<"i", "o">>,
                                  !.log = Log(p, <<Failing(Ev0("readtemp", r.f)),
                                                   Ev0("rmtemp", r.f)>>)])
              /\ tmp' = ExitScope(tmp, r.f, FALSE)
    /\ UNCHANGED <<fn, disk, ncalls>>

\* add_notebook: the with block ends and the temporary file is deleted.
CloseTemp(p) ==
    /\ proc[p].pc = "close"
    /\ LET r == proc[p]
       IN  /\ tmp' = ExitScope(tmp, r.f, TRUE)
           /\ Set(p, [r EXCEPT !.pc = "persist", !.log = Log(p, <<Ev0("rmtemp", r.f)>>)])
    /\ UNCHANGED <<fn, disk, ncalls>>

\* add_notebook: write_ipynb(notebook, path.with_suffix(".ipynb")); the write
\* succeeds or raises with the file untouched.
Persist(p) ==
    /\ proc[p].pc = "persist"
    /\ LET r == proc[p]
           target == with_suffix(r.path, "ipynb")
           call == Ev0("write", target)
       IN  \/ /\ disk' = write_ipynb(disk, r.cells, target)
              /\ Set(p, [r EXCEPT !.pc = "done", !.log = Log(p, <<call>>),
                                  !.ret = IF r.entry = "init" THEN r.path ELSE NoPath])
           \/ /\ disk' = disk
              /\ Set(p, [r EXCEPT !.pc = "failed", !.error = <<"i", "o">>,
                                  !.log = Log(p, <<Failing(call)>>)])
    /\ UNCHANGED <<fn, tmp, ncalls>>

\* add on a path without the notebook extension: uv_script runs on the path
\* itself; the tool rewrites the script and exits 0, or exits non-zero.
Script(p) ==
    /\ proc[p].pc = "script"
    /\ LET r == proc[p]
           call == WithArgv(
                       Ev("add_to_script", r.path, r.packages, r.requirements, r.opts, <<>>),
                       ScriptArgs(r.path, r.packages, r.requirements, r.opts))
       IN  \E ok \in BOOLEAN, out \in ToolTexts :
             /\ ok => Exists(disk, r.path)
             /\ disk' = IF ok THEN WriteFile(disk, r.path, TextFile(out)) ELSE disk
             /\ Set(p, [r EXCEPT !.pc = IF Raises(ok) THEN "failed" ELSE "done",
                                 !.error = IF Raises(ok) THEN <<"u", "v">> ELSE <<>>,
                                 !.log = Log(p, <<IF ok THEN Gave(call, out)
                                                  ELSE Failing(call)>>)])
    /\ UNCHANGED <<fn, tmp, ncalls>>

\* The operation has returned or raised; the process is free for the next call.
Return(p) ==
    /\ proc[p].pc \in {"done", "failed"}
    /\ Set(p, Idle(disk))
    /\ UNCHANGED <<fn, disk, tmp, ncalls>>

(***************************************************************************)
(* init                                                                    *)
(***************************************************************************)
\* init: `if path.suffix != ".ipynb"`, the path is refused.
BadSuffixNever(path) == FALSE
BadSuffix(path) == path.ext # "ipynb"

\* init(path, python, packages) is called: the name is chosen when no path is
\* given, and the extension is checked.
InitCall(p) ==
    /\ proc[p].pc = "idle"
    /\ ncalls < MaxCalls
    /\ \E arg \in InitPaths, o \in InitOptionChoices :
         LET r == [Idle(disk) EXCEPT !.entry = "init", !.callno = ncalls + 1,
                                     !.python = o.python, !.nopath = (arg = NoPath),
                                     !.packages = o.packages]
             k == FirstUntitled(disk)
             path == IF arg = NoPath THEN Untitled(k) ELSE arg
         IN  IF arg = NoPath /\ k = -1
             THEN Set(p, [r EXCEPT !.pc = "failed", !.error = <<"n", "o">>])
             ELSE IF BadSuffix(path)
             THEN Set(p, [r EXCEPT !.pc = "failed", !.path = path, !.error = <<"e", "x", "t">>])
             ELSE Set(p, [r EXCEPT !.pc = "init_tmp", !.path = path])
    /\ ncalls' = ncalls + 1
    /\ UNCHANGED <<fn, disk, tmp>>

\* new_notebook_with_inline_metadata: the temporary file is created, empty, in
\* the directory of the notebook; or it cannot be created.
InitTmp(p) ==
    /\ proc[p].pc = "init_tmp"
    /\ LET r == proc[p]
           f == TmpName(r.path.dir, 2 * r.callno - 1)
       IN  \/ /\ tmp' = WriteFile(tmp, f, TextFile(<<>>))
              /\ Set(p, [r EXCEPT !.pc = "init_tool", !.f = f,
                                  !.log = Log(p, <<Ev0("mktemp", f)>>)])
           \/ /\ Set(p, [r EXCEPT !.pc = "failed", !.error = <<"i", "o">>,
                                  !.log = Log(p, <<Failing(Ev0("mktemp", f))>>)])
              /\ tmp' = tmp
    /\ UNCHANGED <<fn, disk, ncalls>>

\* new_notebook_with_inline_metadata: `uv init --script` runs on the file; it
\* writes the script and exits 0, or exits non-zero.
InitTool(p) ==
    /\ proc[p].pc = "init_tool"
    /\ LET r == proc[p]
           call == Ev0("init_script", r.f)
       IN  \E ok \in BOOLEAN, out \in ToolTexts :
             LET after == IF ok THEN WriteFile(tmp, r.f, TextFile(out)) ELSE tmp
                 e == IF ok THEN Gave(call, out) ELSE Failing(call)
             IN  IF Raises(ok)
                 THEN /\ tmp' = ExitScope(after, r.f, FALSE)
                      /\ Set(p, [r EXCEPT !.pc = "failed", !.error = <<"u", "v">>,
                                          !.log = Log(p, <<e, Ev0("rmtemp", r.f)>>)])
                 ELSE /\ tmp' = after
                      /\ Set(p, [r EXCEPT !.pc = "init_read", !.log = Log(p, <<e>>)])
    /\ UNCHANGED <<fn, disk, ncalls>>

\* new_notebook(cells=[code_cell(contents, hidden=True), code_cell("")])
InitDocumentOneCell(contents) == <<code_cell(contents, TRUE, "init")>>
InitDocument(contents) ==
    <<code_cell(contents, TRUE, "init"), code_cell(<<>>, FALSE, "init")>>

\* init: `if len(packages) > 0`, add is called on the path.
InitDelegatesNever(packages) == FALSE
InitDelegates(packages) == Len(packages) > 0

\* new_notebook_with_inline_metadata: the file is read, stripped, and the new
\* notebook of two code cells is built.
InitRead(p) ==
    /\ proc[p].pc = "init_read"
    /\ LET r == proc[p]
           contents == ReinsertText(tmp[r.f].text)
       IN  Set(p, [r EXCEPT !.pc = "init_close",
                            !.cells = InitDocument(contents),
                            !.log = Log(p, <<Ev("setsource", r.f, <<>>, ReqNone, NoOpts,
                                                contents)>>)])
    /\ UNCHANGED <<fn, disk, tmp, ncalls>>

\* new_notebook_with_inline_metadata returns: the with block ends and the
\* temporary file is deleted.
InitClose(p) ==
    /\ proc[p].pc = "init_close"
    /\ LET r == proc[p]
       IN  /\ tmp' = ExitScope(tmp, r.f, TRUE)
           /\ Set(p, [r EXCEPT !.pc = "init_write", !.log = Log(p, <<Ev0("rmtemp", r.f)>>)])
    /\ UNCHANGED <<fn, disk, ncalls>>

\* init: write_ipynb(notebook, path); then add(path, packages, requirements=None)
\* is called when packages is not empty, and init returns the path otherwise.
InitWrite(p) ==
    /\ proc[p].pc = "init_write"
    /\ LET r == proc[p]
           call == Ev0("write", r.path)
       IN  \/ /\ disk' = write_ipynb(disk, r.cells, r.path)
              /\ IF InitDelegates(r.packages)
                 THEN Set(p, [r EXCEPT !.pc = NextOfAdd(r.path), !.inadd = TRUE,
                                       !.requirements = ReqNone, !.pin = FALSE,
                                       !.opts = NoOpts,
                                       !.given = [packages |-> r.packages,
                                                  requirements |-> ReqNone],
                                       !.cells = <<>>, !.idx = 0, !.f = NoPath,
                                       !.addpre = disk', !.addfrom = Len(r.log) + 1,
                                       !.log = Log(p, <<call>>)])
                 ELSE Set(p, [r EXCEPT !.pc = "done", !.ret = r.path,
                                       !.log = Log(p, <<call>>)])
           \/ /\ disk' = disk
              /\ Set(p, [r EXCEPT !.pc = "failed", !.error = <<"i", "o">>,
                                  !.log = Log(p, <<Failing(call)>>)])
    /\ UNCHANGED <<fn, tmp, ncalls>>

(***************************************************************************)
(* uv_pip_compile on its own: every standard output of up to MaxOut         *)
(* characters.                                                             *)
(***************************************************************************)
MaxOut == 6

OutChars == {"=", "a", "\n"}
OutTexts == UNION {[1..k -> OutChars] : k \in 0..MaxOut}

InitCompile ==
    /\ disk = [q \in {ReqPath} |-> TextFile(<<"q", "q", "\n">>)]
    /\ tmp = [q \in {} |-> TextFile(<<>>)]
    /\ proc = [p \in {} |-> Idle(disk)]
    /\ ncalls = 0
    /\ \E packages \in CompilePackageChoices, requirements \in {ReqNone, ReqFile} :
         fn = [pc |-> "start", packages |-> packages, requirements |-> requirements,
               stdin |-> <<>>, ok |-> TRUE, stdout |-> <<>>, stderr |-> <<>>,
               result |-> <<>>, error |-> <<>>]

\* The requirements text is built and piped to the tool, which answers.
CompileRun ==
    /\ fn.pc = "start"
    /\ \E ok \in BOOLEAN, out \in OutTexts, err \in CompileErrs :
         fn' = [fn EXCEPT !.pc = "ran",
                          !.stdin = CompileInput(disk, fn.packages, fn.requirements),
                          !.ok = ok,
                          !.stdout = IF ok THEN out ELSE <<>>,
                          !.stderr = IF ok THEN <<>> ELSE err]
    /\ UNCHANGED <<disk, tmp, proc, ncalls>>

\* The return code is tested and the output filtered.
CompileReturn ==
    /\ fn.pc = "ran"
    /\ fn' = IF CompileRaises(fn.ok)
             THEN [fn EXCEPT !.pc = "raised", !.error = CompileError(fn.stderr)]
             ELSE [fn EXCEPT !.pc = "returned", !.result = ExactVersions(fn.stdout)]
    /\ UNCHANGED <<disk, tmp, proc, ncalls>>

NextCompile == CompileRun \/ CompileReturn

SpecCompile == InitCompile /\ [][NextCompile]_vars

(***************************************************************************)
(* The script bridge on its own: every cell source of up to MaxSrc          *)
(* characters goes to a temporary file and back, MaxRounds times, and       *)
(* nothing else touches the file.                                          *)
(***************************************************************************)
MaxSrc == 4
MaxRounds == 2

SrcChars == {" ", "\n", "\r", "M"}
SrcTexts == UNION {[1..k -> SrcChars] : k \in 0..MaxSrc}

InitBridge ==
    /\ disk = [q \in {P_nb} |-> NotebookFile(<<>>)]
    /\ tmp = [q \in {} |-> TextFile(<<>>)]
    /\ proc = [p \in {} |-> Idle(disk)]
    /\ ncalls = 0
    /\ \E s \in SrcTexts :
         fn = [pc |-> "cell", source |-> s, orig |-> s, prev |-> s, round |-> 0,
               f |-> NoPath]

\* extract: the trimmed source is written to a new temporary file.
BridgeExtract ==
    /\ fn.pc = "cell"
    /\ fn.round < MaxRounds
    /\ LET f == TmpName(P_nb.dir, fn.round + 1)
       IN  /\ tmp' = WriteFile(tmp, f, TextFile(ExtractText(fn.source)))
           /\ fn' = [fn EXCEPT !.pc = "file", !.f = f]
    /\ UNCHANGED <<disk, proc, ncalls>>

\* reinsert: the file is read back into the source; then the file is deleted.
BridgeReinsert ==
    /\ fn.pc = "file"
    /\ fn' = [fn EXCEPT !.pc = "cell", !.source = ReinsertText(tmp[fn.f].text),
                        !.prev = fn.source, !.round = fn.round + 1, !.f = NoPath]
    /\ tmp' = ExitScope(tmp, fn.f, TRUE)
    /\ UNCHANGED <<disk, proc, ncalls>>

NextBridge == BridgeExtract \/ BridgeReinsert

SpecBridge == InitBridge /\ [][NextBridge]_vars

(***************************************************************************)
(* uv_script on its own: every combination of its parameters.              *)
(***************************************************************************)
ArgOpts ==
    [extras : {<<>>, <<"dev">>, <<"test", "dev">>}, editable : BOOLEAN,
     branch : {"", "main"}, rev : {"", "abc"}, tag : {"", "v1"},
     exclude_newer : {"", "2024-01-01"}]
ArgPackages == {<<>>, <<PkgP>>, <<PkgQ, PkgP>>}
ArgScripts == {P_txt, TmpName("cwd", 2)}

InitArgs ==
    /\ disk = [q \in {ReqPath} |-> TextFile(<<"q", "q", "\n">>)]
    /\ tmp = [q \in {} |-> TextFile(<<>>)]
    /\ proc = [p \in {} |-> Idle(disk)]
    /\ ncalls = 0
    /\ \E script \in ArgScripts, packages \in ArgPackages,
          requirements \in {ReqNone, ReqFile}, opts \in ArgOpts :
         fn = [pc |-> "called", script |-> script, packages |-> packages,
               requirements |-> requirements, opts |-> opts, argv |-> <<>>]

\* The argument vector is built and handed to uv.
ArgsBuild ==
    /\ fn.pc = "called"
    /\ fn' = [fn EXCEPT !.pc = "built",
                        !.argv = ScriptArgs(fn.script, fn.packages, fn.requirements,
                                            fn.opts)]
    /\ UNCHANGED <<disk, tmp, proc, ncalls>>

NextArgs == ArgsBuild

SpecArgs == InitArgs /\ [][NextArgs]_vars

(***************************************************************************)
(* The specification: operations run one after the other.                  *)
(***************************************************************************)
Next ==
    \/ \E p \in Procs : AddCall(p)
    \/ \E p \in Procs : AddNotebookCall(p)
    \/ \E p \in Procs : Pin(p)
    \/ \E p \in Procs : ReadNotebook(p)
    \/ \E p \in Procs : Extract(p)
    \/ \E p \in Procs : Invoke(p)
    \/ \E p \in Procs : Reinsert(p)
    \/ \E p \in Procs : CloseTemp(p)
    \/ \E p \in Procs : Persist(p)
    \/ \E p \in Procs : Script(p)
    \/ \E p \in Procs : InitCall(p)
    \/ \E p \in Procs : InitTmp(p)
    \/ \E p \in Procs : InitTool(p)
    \/ \E p \in Procs : InitRead(p)
    \/ \E p \in Procs : InitClose(p)
    \/ \E p \in Procs : InitWrite(p)
    \/ \E p \in Procs : Return(p)

Spec == Init /\ [][Next]_vars

(***************************************************************************)
(* Two add calls on one notebook, run by two processes with nothing         *)
(* between them but the files: each has been called with its packages and   *)
(* their steps interleave in any order.                                    *)
(***************************************************************************)
\* The operation of a process just after add(path, packages) was called.
Called(d, n, path, packages) ==
    [Idle(d) EXCEPT !.pc = NextOfAdd(path), !.entry = "add", !.callno = n,
                    !.inadd = TRUE, !.path = path, !.packages = packages,
                    !.given = [packages |-> packages, requirements |-> ReqNone]]

InitConcurrent ==
    /\ \E cells \in InitDocs :
         disk = [q \in {P_nb, ReqPath} |->
                    IF q = P_nb THEN NotebookFile(cells)
                    ELSE TextFile(<<"q", "q", "\n">>)]
    /\ tmp = [q \in {} |-> TextFile(<<>>)]
    /\ proc = [p \in {1, 2} |->
                 Called(disk, p, P_nb, IF p = 1 THEN <<PkgP>> ELSE <<PkgQ, PkgP>>)]
    /\ ncalls = 2
    /\ fn = NoCall

NextConcurrent ==
    \/ \E p \in Procs : ReadNotebook(p)
    \/ \E p \in Procs : Extract(p)
    \/ \E p \in Procs : Invoke(p)
    \/ \E p \in Procs : Reinsert(p)
    \/ \E p \in Procs : CloseTemp(p)
    \/ \E p \in Procs : Persist(p)

SpecConcurrent == InitConcurrent /\ [][NextConcurrent]_vars

(***************************************************************************)
(* Properties.                                                             *)
(***************************************************************************)
Terminal(r) == r.pc \in {"done", "failed"}

\* The operation is inside add_notebook, or on its way to it.
NotebookFlow(r) == r.inadd /\ (r.entry = "add_notebook" \/ r.path.ext = "ipynb")

\* The calls made by the add call of the operation.
AddLog(r) == SubSeq(r.log, r.addfrom + 1, Len(r.log))
Names(log) == [i \in DOMAIN log |-> log[i].ev]
Has(log, name) == \E i \in DOMAIN log : log[i].ev = name
Target(r) == [dir |-> r.path.dir, name |-> r.path.name, num |-> r.path.num, ext |-> "ipynb"]

\* The steps of a notebook rewrite, in order.
RewriteSteps == <<"read", "mktemp", "add_to_script", "setsource", "rmtemp", "write">>

\* C1: in add on a notebook, a failed step ends the operation FAILED with the
\* files as they were when add started; the files differ from that only once the
\* operation is DONE, every step before the write having succeeded in order, and
\* then only in the notebook, which holds the whole document.
C1_AllOrNothing ==
    \A p \in Procs :
        LET r == proc[p]
            log == AddLog(r)
        IN  NotebookFlow(r) =>
              /\ (\E i \in DOMAIN log : ~log[i].ok) => r.pc = "failed"
              /\ r.pc # "done" => disk = r.addpre
              /\ Has(log, "write") /\ r.pc = "done" =>
                    /\ \A i \in DOMAIN log : log[i].ok
                    /\ \/ Names(log) = RewriteSteps
                       \/ r.pin /\ Names(log) = <<"compile">> \o RewriteSteps
                    /\ DOMAIN disk = DOMAIN r.addpre \cup {Target(r)}
                    /\ \A q \in DOMAIN r.addpre : q # Target(r) => disk[q] = r.addpre[q]
                    /\ disk[Target(r)].kind = "nb"
                    /\ disk[Target(r)].cells = r.cells
                    /\ Len(r.cells) >= Len(r.orig)
              /\ r.pc = "done" => Has(log, "write")

\* C1's case: the tool failed on the temporary file of an existing notebook.
C1_Witness ==
    \E p \in Procs :
        LET r == proc[p]
        IN  /\ NotebookFlow(r) /\ r.pc = "failed"
            /\ \E i \in DOMAIN r.log : r.log[i].ev = "add_to_script" /\ ~r.log[i].ok
            /\ Len(r.orig) > 0

\* C2: once an operation is DONE or FAILED, none of the temporary files it
\* created exists, and each one it created it has deleted.
C2_TempDeleted ==
    \A p \in Procs :
        LET r == proc[p]
        IN  Terminal(r) =>
              /\ \A f \in DOMAIN tmp : f.num \notin {2 * r.callno - 1, 2 * r.callno}
              /\ \A i \in DOMAIN r.log :
                    r.log[i].ev = "mktemp" /\ r.log[i].ok =>
                        \E j \in (i + 1)..Len(r.log) :
                            r.log[j].ev = "rmtemp" /\ r.log[j].path = r.log[i].path

\* C2's case: init made and deleted its file, then the tool failed in the add it
\* delegated to.
C2_Witness ==
    \E p \in Procs :
        LET r == proc[p]
        IN  /\ r.entry = "init" /\ r.inadd /\ r.pc = "failed"
            /\ \E i \in DOMAIN r.log : r.log[i].ev = "add_to_script" /\ ~r.log[i].ok
            /\ Cardinality({i \in DOMAIN r.log : r.log[i].ev = "mktemp"}) = 2

\* C3: when the notebook read has a manifest cell, a successful add leaves the
\* number and order of the cells as they were and changes nothing but the source
\* of one cell, the manifest cell.
C3_Frame ==
    \A p \in Procs :
        LET r == proc[p]
            old == r.orig
            new == disk[Target(r)].cells
        IN  /\ NotebookFlow(r) /\ r.pc = "done"
            /\ \E i \in DOMAIN old :
                   old[i].cell_type = "code" /\ includes_inline_metadata(old[i].source)
            => /\ Len(new) = Len(old)
               /\ \E k \in DOMAIN old :
                     /\ old[k].cell_type = "code" /\ includes_inline_metadata(old[k].source)
                     /\ \A i \in DOMAIN old : i # k => new[i] = old[i]
                     /\ new[k] = [old[k] EXCEPT !.source = new[k].source]

\* C3's case: a successful add rewrote the manifest cell of a notebook of three cells.
C3_Witness ==
    \E p \in Procs :
        LET r == proc[p]
        IN  /\ NotebookFlow(r) /\ r.pc = "done" /\ r.orig = DocManifest
            /\ disk[Target(r)].cells # r.orig


\* The cell is a code cell whose source satisfies the inline-metadata predicate.
Matches(cell) == cell.cell_type = "code" /\ includes_inline_metadata(cell.source)
NoMatch(cells) == \A i \in DOMAIN cells : ~Matches(cells[i])
Synthesized(cells) == {i \in DOMAIN cells : cells[i].origin = "synth"}

\* The add call has read its notebook.
HasRead(r) == \E i \in DOMAIN AddLog(r) : AddLog(r)[i].ev = "read" /\ AddLog(r)[i].ok

\* The cells are those of old behind one new hidden empty code cell.
InsertedAtZero(cells, old) ==
    /\ Len(cells) = Len(old) + 1
    /\ cells[1].cell_type = "code" /\ cells[1].hidden /\ cells[1].origin = "synth"
    /\ \A i \in DOMAIN old : cells[i + 1] = old[i]

\* Locate-or-create on a Document without a manifest cell puts one hidden empty
\* code cell at index 0, before the cells read.
InsertsOne ==
    \A p \in Procs :
        LET r == proc[p]
        IN  NotebookFlow(r) /\ HasRead(r) /\ NoMatch(r.orig) =>
              /\ InsertedAtZero(r.cells, r.orig)
              /\ r.idx = 1
              /\ r.pc \in {"extract", "invoke", "reinsert"} => r.cells[1].source = <<>>

\* C4 as stated: InsertsOne, and no Document ever holds more than one
\* synthesized cell.
C4_Original ==
    /\ InsertsOne
    /\ \A q \in DOMAIN disk : Cardinality(Synthesized(disk[q].cells)) <= 1
    /\ \A p \in Procs : Cardinality(Synthesized(proc[p].cells)) <= 1

\* C4, amended: InsertsOne; no cell is inserted when a code cell satisfies the
\* predicate; and in every Document each synthesized cell but the first fails the
\* predicate (a further cell is synthesized only while the earlier ones fail it).
C4_Synthesis ==
    /\ InsertsOne
    /\ \A p \in Procs :
         LET r == proc[p]
         IN  NotebookFlow(r) /\ HasRead(r) /\ ~NoMatch(r.orig) =>
               /\ Len(r.cells) = Len(r.orig)
               /\ Synthesized(r.cells) = Synthesized(r.orig)
    /\ \A q \in DOMAIN disk :
         \A i, j \in Synthesized(disk[q].cells) : i < j => ~Matches(disk[q].cells[j])

\* C4's case: a notebook of two cells, none a manifest cell, has been read and the
\* cell synthesized.
C4_Witness ==
    \E p \in Procs :
        LET r == proc[p]
        IN  /\ NotebookFlow(r) /\ r.pc = "extract"
            /\ r.orig = DocPlain /\ Len(r.cells) = 3 /\ r.cells[1].origin = "synth"

\* C5: when the notebook read has a code cell satisfying the predicate, the cell
\* located is the first such cell, no cell is inserted, and the text read back
\* from the file becomes the source of that cell of the Document, which is the
\* one persisted.
C5_Lookup ==
    \A p \in Procs :
        LET r == proc[p]
            k == r.idx
            log == AddLog(r)
        IN  NotebookFlow(r) /\ HasRead(r) /\ ~NoMatch(r.orig) =>
              /\ k \in DOMAIN r.orig
              /\ Matches(r.orig[k])
              /\ \A j \in 1..(k - 1) : ~Matches(r.orig[j])
              /\ Len(r.cells) = Len(r.orig)
              /\ \A i \in DOMAIN log :
                    log[i].ev = "setsource" =>
                        /\ r.cells[k].source = log[i].text
                        /\ r.pc = "done" => disk[Target(r)].cells[k].source = log[i].text

\* C5's case: the first cell is a markdown cell with the marker, the second and
\* third are matching code cells, and the second was rewritten.
C5_Witness ==
    \E p \in Procs :
        LET r == proc[p]
        IN  /\ NotebookFlow(r) /\ r.pc = "done" /\ r.orig = DocManifest
            /\ r.idx = 2
            /\ disk[Target(r)].cells[2].source = <<"x">>
            /\ disk[Target(r)].cells[3] = DocManifest[3]

\* C6: in add with pin set, the compile call comes first, with the packages,
\* requirements and exclude_newer given, and add_to_script gets the list compile
\* returned and no requirements; with pin unset compile is not called and
\* add_to_script gets the packages and requirements given.
C6_PinOrdering ==
    \A p \in Procs :
        LET r == proc[p]
            log == AddLog(r)
        IN  r.inadd =>
              /\ r.pin =>
                    /\ r.pc # "pin" => Has(log, "compile")
                    /\ \A i \in DOMAIN log :
                          IF log[i].ev = "compile"
                          THEN /\ i = 1
                               /\ log[i].pkgs = r.given.packages
                               /\ log[i].reqs = r.given.requirements
                               /\ log[i].opts.exclude_newer = r.opts.exclude_newer
                          ELSE /\ i > 1
                               /\ log[1].ev = "compile" /\ log[1].ok
                               /\ log[i].ev = "add_to_script" =>
                                     /\ log[i].pkgs = ExactVersions(log[1].out)
                                     /\ ~log[i].reqs.given
              /\ ~r.pin =>
                    /\ ~Has(log, "compile")
                    /\ \A i \in DOMAIN log :
                          log[i].ev = "add_to_script" =>
                              /\ log[i].pkgs = r.given.packages
                              /\ log[i].reqs = r.given.requirements

\* C6's case: add with pin and a requirements file; the tool was given the two
\* pinned lines of the compile output.
C6_Witness ==
    \E p \in Procs :
        LET r == proc[p]
        IN  /\ r.pin /\ r.given.requirements.given /\ r.pc = "done"
            /\ \E i \in DOMAIN r.log :
                  /\ r.log[i].ev = "add_to_script"
                  /\ r.log[i].pkgs = <<<<"p", "=", "=", "1">>, <<"q", "=", "=", "2">>>>
                  /\ ~r.log[i].reqs.given


\* The lines of a text, read off the places of its newlines.
Newlines(text) == {i \in 1..Len(text) : text[i] = "\n"}
NthNewline(text, k) ==
    CHOOSE i \in Newlines(text) : Cardinality({j \in Newlines(text) : j < i}) = k - 1
LineCount(text) == Cardinality(Newlines(text)) + 1
LineStart(text, k) == IF k = 1 THEN 1 ELSE NthNewline(text, k - 1) + 1
LineEnd(text, k) == IF k = LineCount(text) THEN Len(text) ELSE NthNewline(text, k) - 1
Line(text, k) == SubSeq(text, LineStart(text, k), LineEnd(text, k))
\* The numbers of the lines that hold "==".
PinnedLines(text) ==
    {k \in 1..LineCount(text) :
        \E i \in LineStart(text, k)..(LineEnd(text, k) - 1) :
            text[i] = "=" /\ text[i + 1] = "="}
NthPinned(text, j) ==
    CHOOSE k \in PinnedLines(text) : Cardinality({m \in PinnedLines(text) : m < k}) = j - 1

\* C7: what uv_pip_compile returns is the lines of the standard output that hold
\* "==", each as it is and in the order of the output, and nothing else.
C7_Filter ==
    fn.pc = "returned" =>
        /\ Len(fn.result) = Cardinality(PinnedLines(fn.stdout))
        /\ \A j \in DOMAIN fn.result :
              fn.result[j] = Line(fn.stdout, NthPinned(fn.stdout, j))

\* C7's case: of three lines the second, an empty one, is dropped, and the first
\* and third are returned in that order.
C7_Witness ==
    /\ fn.pc = "returned"
    /\ LineCount(fn.stdout) = 3
    /\ PinnedLines(fn.stdout) = {1, 3}
    /\ fn.result = <<<<"=", "=">>, <<"=", "=">>>>


\* The temporary files of the operation that exist.
OwnTemps(r) == {f \in DOMAIN tmp : f.num \in {2 * r.callno - 1, 2 * r.callno}}

\* C8: add on a path without the notebook extension builds no Document, makes
\* no call to notebook I/O and no temporary file, and calls add_to_script on the
\* path itself.
C8_ScriptFlow ==
    \A p \in Procs :
        LET r == proc[p]
        IN  r.entry = "add" /\ r.path.ext # "ipynb" =>
              /\ r.cells = <<>> /\ r.orig = <<>>
              /\ OwnTemps(r) = {}
              /\ \A i \in DOMAIN r.log :
                    /\ r.log[i].ev \in {"compile", "add_to_script"}
                    /\ r.log[i].ev = "add_to_script" => r.log[i].path = r.path
              /\ r.pc = "done" => Has(r.log, "add_to_script")
              /\ r.pc = "failed" /\ (\A i \in DOMAIN r.log : r.log[i].ev = "compile" => r.log[i].ok)
                    => Has(r.log, "add_to_script")

\* C8's case: add with pin on nb.txt is DONE after the compile call and the call of
\* add_to_script on nb.txt.
C8_Witness ==
    \E p \in Procs :
        LET r == proc[p]
        IN  /\ r.entry = "add" /\ r.path = P_txt /\ r.pin /\ r.pc = "done"
            /\ Names(r.log) = <<"compile", "add_to_script">>
            /\ r.log[2].path = P_txt

\* C9 as stated: add on a path with another extension (nb.txt) persists the
\* Document to the same stem with the notebook extension and does not write the
\* path; the notebook flow writes to the path with its extension replaced.
C9_Original ==
    \A p \in Procs :
        LET r == proc[p]
            log == AddLog(r)
        IN  /\ r.entry = "add" /\ r.path.ext # "ipynb" /\ r.pc = "done" =>
                /\ \E i \in DOMAIN log : log[i].ev = "write" /\ log[i].path = Target(r)
                /\ Target(r) \in DOMAIN disk /\ disk[Target(r)].kind = "nb"
                /\ disk[r.path] = r.addpre[r.path]
            /\ NotebookFlow(r) =>
                \A i \in DOMAIN log : log[i].ev = "write" => log[i].path = Target(r)

\* C9, amended: add_notebook writes to the path with its extension replaced by
\* the notebook extension, and called on nb.txt it persists the Document to
\* nb.ipynb and does not write nb.txt; add sends only paths with the notebook
\* extension to add_notebook, so add writes a notebook only at the path given, and
\* on nb.txt it writes none.
C9_Normalization ==
    \A p \in Procs :
        LET r == proc[p]
            log == AddLog(r)
        IN  /\ NotebookFlow(r) =>
                /\ \A i \in DOMAIN log : log[i].ev = "write" => log[i].path = Target(r)
                /\ r.pc = "done" =>
                      /\ Target(r) \in DOMAIN disk
                      /\ disk[Target(r)] = NotebookFile(r.cells)
                      /\ r.path # Target(r) => disk[r.path] = r.addpre[r.path]
            /\ r.entry = "add" /\ r.path.ext # "ipynb" =>
                /\ ~Has(log, "write")
                /\ Target(r) \in DOMAIN disk <=> Target(r) \in DOMAIN r.addpre
                /\ Target(r) \in DOMAIN disk => disk[Target(r)] = r.addpre[Target(r)]
            /\ r.entry = "add" /\ Has(log, "write") => r.path = Target(r)

\* C9's case: add_notebook on nb.txt is DONE; nb.ipynb holds the rewritten
\* Document and nb.txt is as it was.
C9_Witness ==
    \E p \in Procs :
        LET r == proc[p]
        IN  /\ r.entry = "add_notebook" /\ r.path = P_txt /\ r.pc = "done"
            /\ disk[P_nb] = NotebookFile(r.cells)
            /\ disk[P_nb] # r.addpre[P_nb]
            /\ disk[P_txt] = r.addpre[P_txt]

\* The numbers of the UntitledN.ipynb names (0 for Untitled.ipynb) taken in d.
TakenUntitled(d) ==
    {i \in 0..99 : [dir |-> "cwd", name |-> "Untitled", num |-> i, ext |-> "ipynb"] \in DOMAIN d}

\* C10: init without a path takes the first of Untitled.ipynb, Untitled1.ipynb,
\* ..., Untitled99.ipynb that does not exist (Untitled.ipynb when none does,
\* Untitled1.ipynb when only Untitled.ipynb does), returns it once the notebook
\* is written there, and when all 100 exist fails with no call made and no file
\* written.
C10_Untitled ==
    \A p \in Procs :
        LET r == proc[p]
            taken == TakenUntitled(r.pre)
        IN  r.entry = "init" /\ r.nopath =>
              IF taken = 0..99
              THEN /\ r.pc = "failed"
                   /\ r.log = <<>>
                   /\ disk = r.pre
                   /\ OwnTemps(r) = {}
              ELSE /\ r.path.dir = "cwd" /\ r.path.name = "Untitled" /\ r.path.ext = "ipynb"
                   /\ r.path.num \in (0..99) \ taken
                   /\ \A j \in 0..(r.path.num - 1) : j \in taken
                   /\ taken = {} => r.path.num = 0
                   /\ taken = {0} => r.path.num = 1
                   /\ r.pc = "done" => r.ret = r.path /\ r.path \in DOMAIN disk

\* C10's case: the second of two init calls returns Untitled1.ipynb, the first
\* having written Untitled.ipynb.
C10_Witness ==
    \E p \in Procs :
        LET r == proc[p]
        IN  /\ r.entry = "init" /\ r.nopath /\ r.pc = "done" /\ r.callno = 2
            /\ r.ret = Untitled(1)
            /\ TakenUntitled(r.pre) = {0}
            /\ r.pre[Untitled(0)].cells # <<>>
            /\ r.pre[Untitled(0)].cells[1].origin = "init"

\* C11: init on a given path whose extension is not the notebook extension
\* ends at once in the fatal usage error: no temporary file is made, no call to
\* the tool or to notebook I/O, nothing is returned and the files are as they
\* were.
C11_ExtensionCheck ==
    \A p \in Procs :
        LET r == proc[p]
        IN  r.entry = "init" /\ ~r.nopath /\ r.path.ext # "ipynb" =>
              /\ r.pc = "failed"
              /\ r.error = <<"e", "x", "t">>
              /\ r.log = <<>>
              /\ ~r.inadd
              /\ r.ret = NoPath
              /\ OwnTemps(r) = {}
              /\ disk = r.pre

\* C11's case: init was called on nb.txt, with a package to add, where nb.txt
\* holds a notebook.
C11_Witness ==
    \E p \in Procs :
        LET r == proc[p]
        IN  /\ r.entry = "init" /\ r.path = P_txt /\ r.pc = "failed"
            /\ r.packages # <<>>
            /\ disk[P_txt].cells # <<>>

\* t is s without its leading and trailing whitespace.
IsTrimOf(t, s) ==
    \E i \in 1..(Len(s) + 1), j \in 0..Len(s) :
        /\ t = SubSeq(s, i, j)
        /\ \A k \in 1..(i - 1) : s[k] \in {" ", "\n", "\r"}
        /\ \A k \in (j + 1)..Len(s) : s[k] \in {" ", "\n", "\r"}
        /\ t # <<>> => t[1] \notin {" ", "\n", "\r"} /\ t[Len(t)] \notin {" ", "\n", "\r"}

\* The file holds the notebook init makes from what its init_script call left in
\* the temporary file: a hidden code cell holding that text trimmed, then a
\* visible code cell with no source.
InitShape(file, r) ==
    /\ file.kind = "nb"
    /\ Len(file.cells) = 2
    /\ file.cells[1].cell_type = "code" /\ file.cells[1].hidden
    /\ \E i \in DOMAIN r.log :
          /\ r.log[i].ev = "init_script"
          /\ IsTrimOf(file.cells[1].source, r.log[i].out)
    /\ file.cells[2].cell_type = "code" /\ ~file.cells[2].hidden
    /\ file.cells[2].source = <<>>

\* C12: init with packages has written its notebook before any call of the add
\* step is made, and when a call of the add step fails the operation is FAILED
\* and the file at the path is that notebook still, as init wrote it.
C12_PartialSuccess ==
    \A p \in Procs :
        LET r == proc[p]
            log == r.log
        IN  r.entry = "init" /\ r.inadd =>
              /\ r.given.packages # <<>>
              /\ r.addfrom \in DOMAIN log
              /\ log[r.addfrom] = Ev0("write", r.path)
              /\ \A i \in 1..(r.addfrom - 1) :
                    log[i].ev \notin {"compile", "read", "add_to_script", "write"}
              /\ InitShape(r.addpre[r.path], r)
              /\ (\E i \in DOMAIN AddLog(r) : ~AddLog(r)[i].ok) =>
                    /\ r.pc = "failed"
                    /\ r.path \in DOMAIN disk
                    /\ disk[r.path] = r.addpre[r.path]
                    /\ InitShape(disk[r.path], r)

\* C12's case: init wrote a notebook whose manifest cell holds a metadata block
\* where no file was, and the tool then failed in the add step.
C12_Witness ==
    \E p \in Procs :
        LET r == proc[p]
        IN  /\ r.entry = "init" /\ r.inadd /\ r.pc = "failed"
            /\ \E i \in DOMAIN AddLog(r) :
                  AddLog(r)[i].ev = "add_to_script" /\ ~AddLog(r)[i].ok
            /\ r.path \notin DOMAIN r.pre
            /\ disk[r.path].cells[1].source = <<"M", "p">>

\* The notebook file as init's own write left it.
InitWrote(r) == IF r.inadd THEN r.addpre[r.path] ELSE disk[r.path]

C14_RoundTrip ==
    /\ fn.pc = "cell" /\ fn.round >= 1 => IsTrimOf(fn.source, fn.orig)
    /\ fn.pc = "cell" /\ fn.round >= 2 => fn.source = fn.prev

\* The place of an option in the command line of `uv add`.
Rank(opt) ==
    CASE opt = "add" -> 0
      [] opt = "--requirements" -> 1
      [] opt = "--extra" -> 2
      [] opt = "--editable" -> 3
      [] opt = "--tag" -> 4
      [] opt = "--branch" -> 5
      [] opt = "--rev" -> 6
      [] opt = "--exclude-newer" -> 7
      [] opt = "--script" -> 8
      [] opt = "package" -> 9
      [] OTHER -> 10
\* The places of argv that belong to the option.
Places(argv, opt) == {i \in DOMAIN argv : argv[i].opt = opt}
\* The single argument "--flag=value" is there when value is given, and no
\* argument of that flag otherwise.
OnceIfGiven(argv, flag, value) ==
    IF value = "" THEN Places(argv, flag) = {}
    ELSE \E i \in DOMAIN argv :
            /\ Places(argv, flag) = {i}
            /\ argv[i].kind = "eq" /\ argv[i].val = value

\* C15: the argument vector of add_to_script is "add", then --requirements and
\* the file, one --extra=<e> per extra in the order given, --editable, --tag=,
\* --branch=, --rev=, --exclude-newer=, each there exactly when its parameter is
\* given, then --script and the script, then the packages in the order given;
\* nothing else is in it and no flag has an empty value.
C15_Args ==
    fn.pc = "built" =>
        LET a == fn.argv
            o == fn.opts
            n == Len(a)
            np == Len(fn.packages)
            ne == Len(o.extras)
            first == IF fn.requirements.given THEN 4 ELSE 2
        IN  /\ a[1].kind = "word" /\ a[1].opt = "add" /\ Places(a, "add") = {1}
            /\ \A i, j \in DOMAIN a : i < j => Rank(a[i].opt) <= Rank(a[j].opt)
            /\ \A i \in DOMAIN a : Rank(a[i].opt) <= 9
            /\ \A i \in DOMAIN a : a[i].kind = "eq" => a[i].val # ""
            /\ IF fn.requirements.given
               THEN /\ Places(a, "--requirements") = {2, 3}
                    /\ a[2].kind = "word"
                    /\ a[3].kind = "path" /\ a[3].path = fn.requirements.file
               ELSE Places(a, "--requirements") = {}
            /\ Places(a, "--extra") = first..(first + ne - 1)
            /\ \A k \in 1..ne :
                  a[first + k - 1].kind = "eq" /\ a[first + k - 1].val = o.extras[k]
            /\ IF o.editable
               THEN \E i \in DOMAIN a : Places(a, "--editable") = {i} /\ a[i].kind = "word"
               ELSE Places(a, "--editable") = {}
            /\ OnceIfGiven(a, "--tag", o.tag)
            /\ OnceIfGiven(a, "--branch", o.branch)
            /\ OnceIfGiven(a, "--rev", o.rev)
            /\ OnceIfGiven(a, "--exclude-newer", o.exclude_newer)
            /\ Places(a, "--script") = {n - np - 1, n - np}
            /\ a[n - np - 1].kind = "word"
            /\ a[n - np].kind = "path" /\ a[n - np].path = fn.script
            /\ Places(a, "package") = (n - np + 1)..n
            /\ \A k \in 1..np :
                  a[n - np + k].kind = "pkg" /\ a[n - np + k].pkg = fn.packages[k]

\* C15's case: a requirements file, two extras, a tag, a revision and two
\* packages are given, editable, branch and exclude_newer are not.
C15_Witness ==
    /\ fn.pc = "built"
    /\ fn.requirements.given /\ fn.opts.extras = <<"test", "dev">>
    /\ ~fn.opts.editable /\ fn.opts.branch = "" /\ fn.opts.exclude_newer = ""
    /\ fn.packages = <<PkgQ, PkgP>>
    /\ fn.argv = <<Word("add"), Word("--requirements"),
                   PathArg("--requirements", ReqPath), FlagEq("--extra", "test"),
                   FlagEq("--extra", "dev"), FlagEq("--tag", "v1"),
                   FlagEq("--rev", "abc"), Word("--script"),
                   PathArg("--script", P_txt), PkgArg(PkgQ), PkgArg(PkgP)>>

\* The places of the log where the notebook is read, and where it is written.
Reads(log) == {i \in DOMAIN log : log[i].ev = "read"}
Writes(log) == {i \in DOMAIN log : log[i].ev = "write"}
\* The calls init makes itself, and the calls of the add call of the operation.
InitPart(r) ==
    IF r.entry # "init" THEN <<>>
    ELSE IF r.inadd THEN SubSeq(r.log, 1, r.addfrom) ELSE r.log
AddPart(r) == IF r.inadd THEN AddLog(r) ELSE <<>>

\* C16 as stated: an init or add operation reads the notebook at most once,
\* first of all (the compile step aside), and writes it at most once, last of
\* all.
C16_Original ==
    \A p \in Procs :
        LET log == proc[p].log
        IN  /\ Cardinality(Reads(log)) <= 1
            /\ Cardinality(Writes(log)) <= 1
            /\ \A i \in Reads(log) : \A j \in 1..(i - 1) : log[j].ev = "compile"
            /\ \A i \in Writes(log) : i = Len(log)

\* C16: an add call reads the notebook at most once, before any other call
\* but compile, and writes it at most once, as its last call; init itself never
\* reads and writes at most once, as its own last call.  An init with packages
\* that ends DONE has so written the notebook twice, the add call it makes
\* reading between the two writes.
C16_ReadWrite ==
    \A p \in Procs :
        LET r == proc[p]
            a == AddPart(r)
            b == InitPart(r)
        IN  /\ Cardinality(Reads(a)) <= 1
            /\ Cardinality(Writes(a)) <= 1
            /\ \A i \in Reads(a) : \A j \in 1..(i - 1) : a[j].ev = "compile"
            /\ \A i \in Writes(a) : i = Len(a) /\ Reads(a) # {}
            /\ Reads(b) = {}
            /\ Cardinality(Writes(b)) <= 1
            /\ \A i \in Writes(b) : i = Len(b)
            /\ r.log = b \o a
            /\ r.entry = "init" /\ r.pc = "done" =>
                  Cardinality(Writes(r.log)) = (IF r.packages # <<>> THEN 2 ELSE 1)
            /\ r.entry = "init" /\ r.pc = "done" /\ r.packages # <<>> =>
                  \E i, j, k \in DOMAIN r.log :
                      /\ i < j /\ j < k /\ k = Len(r.log)
                      /\ r.log[i] = Ev0("write", r.path)
                      /\ r.log[j] = Ev0("read", r.path)
                      /\ r.log[k] = Ev0("write", r.path)

\* C16's case: an init with a package is DONE; it wrote the notebook, read it
\* back in the add step and wrote it again with another manifest cell source.
C16_Witness ==
    \E p \in Procs :
        LET r == proc[p]
        IN  /\ r.entry = "init" /\ r.pc = "done" /\ r.packages # <<>>
            /\ Cardinality(Writes(r.log)) = 2
            /\ Cardinality(Reads(r.log)) = 1
            /\ disk[r.path] # r.addpre[r.path]

\* C17: when the compile tool exits non-zero the add call is FAILED with the
\* tool's standard error, as it is, for its message; the failed compile call is
\* the only call made (no second try, no read, no temporary file, no
\* add_to_script, no write) and the files are as they were.
C17_CompileFailure ==
    \A p \in Procs :
        LET r == proc[p]
        IN  \A i \in DOMAIN r.log :
                r.log[i].ev = "compile" /\ ~r.log[i].ok =>
                    /\ r.pc = "failed"
                    /\ r.error = r.log[i].out
                    /\ r.log = <<r.log[i]>>
                    /\ r.cells = <<>>
                    /\ r.f = NoPath /\ OwnTemps(r) = {}
                    /\ disk = r.pre

\* C17's case: a pinned add on a notebook with cells, the compile tool having
\* exited non-zero with a standard error that ends in a newline.
C17_Witness ==
    \E p \in Procs :
        LET r == proc[p]
        IN  /\ r.entry = "add" /\ r.pin /\ r.path = P_nb /\ r.pc = "failed"
            /\ r.error = <<"e", "r", "r", "\n">>
            /\ Len(r.log) = 1 /\ r.log[1].ev = "compile" /\ ~r.log[1].ok
            /\ disk[P_nb].cells # <<>>

\* The places of the log where the tool is run on file f, where the text of f
\* is taken into the cell, where f is created and where it is deleted.
ToolOn(log, f) ==
    {i \in DOMAIN log : log[i].ev \in {"add_to_script", "init_script"} /\ log[i].path = f}
TakenFrom(log, f) == {i \in DOMAIN log : log[i].ev = "setsource" /\ log[i].path = f}
MadeAt(log, f) == {i \in DOMAIN log : log[i].ev = "mktemp" /\ log[i].ok /\ log[i].path = f}
DeletedAt(log, f) == {i \in DOMAIN log : log[i].ev = "rmtemp" /\ log[i].path = f}
ScopedFiles(log) == {log[i].path : i \in {j \in DOMAIN log : log[j].ev = "mktemp" /\ log[j].ok}}

\* C18 as stated: a scoped file exists only inside one call of the tool (so it
\* is gone once the tool has returned), is passed to one call at most, and its
\* text is taken into the cell after the tool returns and before it is deleted.
C18_Original ==
    \A p \in Procs :
        LET log == proc[p].log
        IN  \A f \in ScopedFiles(log) :
              /\ f \in DOMAIN tmp => \A k \in ToolOn(log, f) : FALSE
              /\ Cardinality(ToolOn(log, f)) <= 1
              /\ \A s \in TakenFrom(log, f) :
                    /\ \E k \in ToolOn(log, f) : k < s
                    /\ \A j \in DeletedAt(log, f) : s < j

\* C18: the one call of the tool on a scoped file lies inside the lifetime of
\* the file, not the lifetime inside the call: the file is created, once,
\* before the call and deleted, once, after it has returned;
\* the file exists from its creation to its deletion; no file is passed to two
\* calls and no two files of an operation have one name; the text of the file
\* is taken into the cell after the tool has returned with success and before
\* the file is deleted.
C18_Confinement ==
    \A p \in Procs :
        LET log == proc[p].log
        IN  /\ \A f \in ScopedFiles(log) :
                  /\ Cardinality(MadeAt(log, f)) = 1
                  /\ Cardinality(ToolOn(log, f)) <= 1
                  /\ Cardinality(DeletedAt(log, f)) <= 1
                  /\ Cardinality(TakenFrom(log, f)) <= 1
                  /\ \A i \in MadeAt(log, f) :
                        /\ \A k \in ToolOn(log, f) : i < k
                        /\ \A j \in DeletedAt(log, f) : i < j
                  /\ \A j \in DeletedAt(log, f) : \E k \in ToolOn(log, f) : k < j
                  /\ \A s \in TakenFrom(log, f) :
                        /\ \E k \in ToolOn(log, f) :
                              k < s /\ log[k].ok /\ IsTrimOf(log[s].text, log[k].out)
                        /\ \A j \in DeletedAt(log, f) : s < j
                  /\ f \in DOMAIN tmp <=> DeletedAt(log, f) = {}
                  /\ Terminal(proc[p]) => DeletedAt(log, f) # {}
            /\ \A i \in DOMAIN log :
                  log[i].ev = "init_script" \/ log[i].path.name = "tmp" =>
                      log[i].path \in ScopedFiles(log) \/ log[i].ev = "mktemp"

\* C18's case: an init with a package is DONE; it made two scoped files, each
\* passed to one call of the tool, and the second still existed after the tool
\* had returned, when its text was taken into the cell.
C18_Witness ==
    \E p \in Procs :
        LET r == proc[p]
        IN  /\ r.entry = "init" /\ r.pc = "done"
            /\ Cardinality(ScopedFiles(r.log)) = 2
            /\ \A f \in ScopedFiles(r.log) :
                  \E i, k, s, j \in DOMAIN r.log :
                      /\ i < k /\ k < s /\ s < j
                      /\ MadeAt(r.log, f) = {i} /\ ToolOn(r.log, f) = {k}
                      /\ TakenFrom(r.log, f) = {s} /\ DeletedAt(r.log, f) = {j}

\* The requested packages that do not occur in the text, each on a line of its
\* own, in the order of the request.
RECURSIVE AbsentLines(_, _)
AbsentLines(existing, packages) ==
    IF packages = <<>> THEN <<>>
    ELSE (IF \E i \in 1..Len(existing) :
                 /\ i + Len(Head(packages)) - 1 <= Len(existing)
                 /\ \A k \in 1..Len(Head(packages)) :
                       existing[i + k - 1] = Head(packages)[k]
          THEN <<>>
          ELSE Head(packages) \o <<"\n">>)
         \o AbsentLines(existing, Tail(packages))

\* C19: the text piped to the compile tool is the content of the requirements
\* file (nothing when no file is given) followed by the requested packages that
\* do not occur in that content, each on its own line, in the order requested.
C19_InputUnion ==
    fn.pc \in {"ran", "returned", "raised"} =>
        LET existing == IF fn.requirements.given THEN disk[fn.requirements.file].text
                        ELSE <<>>
        IN  fn.stdin = existing \o AbsentLines(existing, fn.packages)

\* The document a DONE add wrote is made of what the add itself read and of
\* what its own call of the tool left: the cells it read, behind a new cell when
\* none of them matched, with the trimmed output of the tool in one cell.
OwnDocument(r) ==
    LET shift == Len(r.cells) - Len(r.orig)
    IN  /\ shift = (IF NoMatch(r.orig) THEN 1 ELSE 0)
        /\ r.idx \in DOMAIN r.cells
        /\ \A i \in DOMAIN r.orig : i + shift # r.idx => r.cells[i + shift] = r.orig[i]
        /\ \E k \in DOMAIN r.log :
              /\ r.log[k].ev = "add_to_script" /\ r.log[k].ok
              /\ IsTrimOf(r.cells[r.idx].source, r.log[k].out)

\* C20: with two add calls interleaved on one notebook the file always holds
\* the whole document of one writer, the last, or what it held at first: a DONE
\* add has written the document made from its own read and its own tool call,
\* whatever the other has written meanwhile, and the file is such a document.
C20_LastWriterWins ==
    /\ \A p \in Procs : proc[p].pc = "done" => OwnDocument(proc[p])
    /\ \A p \in Procs :
          \/ disk[P_nb] = proc[p].pre[P_nb]
          \/ \E w \in Procs : proc[w].pc = "done" /\ disk[P_nb] = NotebookFile(proc[w].cells)
    /\ \A p \in Procs : \A q \in DOMAIN disk : q # P_nb => disk[q] = proc[p].pre[q]

\* C20's case: both adds are DONE, both had read the notebook as it was at
\* first, the file holds the document of the second, and the manifest text the
\* first had got from the tool and written is in no cell of the file.
C20_Witness ==
    /\ proc[1].pc = "done" /\ proc[2].pc = "done"
    /\ proc[1].orig = proc[1].pre[P_nb].cells
    /\ proc[2].orig = proc[2].pre[P_nb].cells
    /\ disk[P_nb] = NotebookFile(proc[2].cells)
    /\ proc[1].cells[proc[1].idx].source = <<"M", "p">>
    /\ \A i \in DOMAIN disk[P_nb].cells : disk[P_nb].cells[i].source # <<"M", "p">>

====
